---- MODULE Spec2Model ----
(***************************************************************************)
(* Model of scripts/create-github-issues.py: the repository resolver       *)
(* (get_repo_info), the issue submitter (create_issue) and the batch       *)
(* orchestrator (main).                                                    *)
(*                                                                         *)
(* Text is modelled in two ways.  A remote URL is a sequence of tokens,    *)
(* each token standing for a run of characters: "/" is the only token that *)
(* contains a slash, "github.com" the only one that contains the host      *)
(* literal of the regular expression and ".git" the only one that ends in  *)
(* the optional suffix, so that matching the regular expression on tokens  *)
(* is matching it on the characters.  Every other text (messages, API      *)
(* URLs, titles) is a TLA+ string built with \o as the f-strings build it. *)
(***************************************************************************)
EXTENDS Integers, Sequences, FiniteSets, TLC

VARIABLES
    pc,            \* position of the control flow in main
    token,         \* os.environ.get("GITHUB_TOKEN")
    git,           \* what `git config --get remote.origin.url` does in this checkout
    isatty,        \* sys.stdin.isatty()
    url,           \* get_repo_info's local: the stripped stdout of git
    resolved,      \* what the call of get_repo_info produced
    owner, repo,   \* main's locals after repo_full.split("/")
    i,             \* enumerate index of the payload the loop is at (1-based)
    created,       \* main's list of Success records
    failed,        \* main's list of Failure records
    posts,         \* the HTTP POSTs issued so far (urlopen calls), in order
    resolverCalls, \* number of invocations of get_repo_info
    out,           \* the error / cancel / summary lines printed by main
    exc,           \* how the process ended: "none" while running
    exitStatus,    \* the process exit status once pc = "exited"
    interruptedAt  \* where the control flow was when Ctrl+C arrived, or "none"

vars == <<pc, token, git, isatty, url, resolved, owner, repo, i, created,
          failed, posts, resolverCalls, out, exc, exitStatus, interruptedAt>>

\* Longest free tail of a remote URL drawn for the resolver, in tokens.
MaxTail == 5

\* Longest owner or repository name of the canonical URL forms, in tokens.
MaxName == 2

\* Python's None, for values that are strings otherwise.
None == "None"

(***************************************************************************)
(* Text helpers                                                            *)
(***************************************************************************)
RECURSIVE Join(_)
\* "".join(tokens): the text a token sequence stands for.
Join(toks) == IF toks = <<>> THEN "" ELSE Head(toks) \o Join(Tail(toks))

\* str.split("/") on a token sequence: the pieces between "/" tokens.
RECURSIVE Split(_)
Split(toks) ==
    IF \A k \in 1..Len(toks) : toks[k] # "/"
    THEN <<toks>>
    ELSE LET k == CHOOSE j \in 1..Len(toks) :
                      /\ toks[j] = "/"
                      /\ \A h \in 1..(j-1) : toks[h] # "/"
         IN  <<SubSeq(toks, 1, k-1)>> \o Split(SubSeq(toks, k+1, Len(toks)))

(***************************************************************************)
(* Repository resolver: get_repo_info                                      *)
(***************************************************************************)
\* [^/]: a token that holds no slash.
NotSlash(t) == t # "/"

\* ([^/]+)(?:\.git)?$ : a greedy group 2 keeps the ".git" suffix.
RepoGroupGreedy(rest) ==
    IF rest = <<>> \/ \E k \in 1..Len(rest) : rest[k] = "/"
    THEN <<>>
    ELSE rest

\* ([^/]+?)(?:\.git)?$ on the text after the second separator: the lazy group
\* takes the shortest non-empty prefix after which only an optional ".git"
\* is left; no match (<<>>) when the text is empty or holds a slash.
RepoGroup(rest) ==
    IF rest = <<>> \/ \E k \in 1..Len(rest) : ~NotSlash(rest[k])
    THEN <<>>
    ELSE IF Len(rest) >= 2 /\ rest[Len(rest)] = ".git"
         THEN SubSeq(rest, 1, Len(rest) - 1)
         ELSE rest

\* The match of  github\.com[:/]([^/]+)/([^/]+?)(?:\.git)?$  that starts at
\* token s, as <<group 1, group 2>>, or <<>> when there is none.  The greedy
\* group 1 holds no slash and is followed by one, so it ends at the first
\* slash after the separator.
MatchAt(u, s) ==
    IF ~(/\ s + 2 <= Len(u)
         /\ u[s] = "github.com"
         /\ u[s+1] \in {":", "/"}
         /\ NotSlash(u[s+2])
         /\ \E k \in (s+3)..Len(u) : u[k] = "/")
    THEN <<>>
    ELSE LET k == CHOOSE j \in (s+3)..Len(u) :
                      /\ u[j] = "/"
                      /\ \A h \in (s+2)..(j-1) : NotSlash(u[h])
             g2 == RepoGroup(SubSeq(u, k+1, Len(u)))
         IN  IF g2 = <<>> THEN <<>> ELSE <<SubSeq(u, s+2, k-1), g2>>

\* re.search: the match at the leftmost start that has one, or <<>>.
ReSearch(u) ==
    IF \E s \in 1..Len(u) : MatchAt(u, s) # <<>>
    THEN LET s == CHOOSE a \in 1..Len(u) :
                      /\ MatchAt(u, a) # <<>>
                      /\ \A b \in 1..(a-1) : MatchAt(u, b) = <<>>
         IN  MatchAt(u, s)
    ELSE <<>>

\* str.strip() on a token sequence: leading and trailing whitespace removed.
IsSpace(t) == t \in {"\n", " "}

RECURSIVE Strip(_)
Strip(toks) ==
    IF toks = <<>> THEN <<>>
    ELSE IF IsSpace(Head(toks)) THEN Strip(Tail(toks))
    ELSE IF IsSpace(toks[Len(toks)]) THEN Strip(SubSeq(toks, 1, Len(toks) - 1))
    ELSE toks

\* What git did: the remote URL and a newline on stdout, a non-zero exit (no
\* such remote, not a checkout), or no git executable at all.
GitOk(u) == [kind |-> "stdout", stdout |-> u \o <<"\n">>]
GitFailed == [kind |-> "CalledProcessError", stdout |-> <<>>]
GitMissing == [kind |-> "FileNotFoundError", stdout |-> <<>>]

Returned(v) == [kind |-> "return", value |-> v, msg |-> ""]
Raised(k, m) == [kind |-> k, value |-> <<>>, msg |-> m]
NotCalled == [kind |-> "not called", value |-> <<>>, msg |-> ""]

\* get_repo_info(): "owner/repo" (as tokens) or the exception it raises.
get_repo_info(g) ==
    IF g.kind = "CalledProcessError"
    THEN Raised("ValueError",
                "Could not determine repository. Make sure you're in a git repository.")
    ELSE IF g.kind = "FileNotFoundError"
    THEN Raised("FileNotFoundError", "No such file or directory: 'git'")
    ELSE LET match == ReSearch(Strip(g.stdout))
         IN  IF match # <<>>
             THEN Returned(match[1] \o <<"/">> \o match[2])
             ELSE Raised("ValueError",
                         "Could not parse repository URL: " \o Join(Strip(g.stdout)))

(***************************************************************************)
(* Issue submitter: create_issue                                           *)
(***************************************************************************)
\* What the network does with one POST: an HTTP response (status, raw body and,
\* when the body is JSON, the object it parses to), or no response at all.
HttpResponse(c, b, isJson, j) ==
    [kind |-> "response", code |-> c, body |-> b, isJson |-> isJson, json |-> j]
NoResponse ==
    [kind |-> "URLError", code |-> 0,
     body |-> "<urlopen error [Errno 111] Connection refused>",
     isJson |-> FALSE, json |-> <<>>]
\* The POST went out and Ctrl+C arrived before any answer.
Unanswered ==
    [kind |-> "interrupted", code |-> 0, body |-> "", isJson |-> FALSE, json |-> <<>>]

\* The request create_issue builds (body and labels travel in it unchanged).
Request(o, r, tok, title) ==
    [url |-> "https://api.github.com/repos/" \o o \o "/" \o r \o "/issues",
     authorization |-> "token " \o tok,
     title |-> title]

\* urlopen raises HTTPError for a status outside 2xx.
Is2xx(c) == c >= 200 /\ c <= 299

\* create_issue with a message that leaves the status code out.
create_issue_no_code(title, net) ==
    IF net.kind = "URLError"
    THEN Raised("URLError", net.body)
    ELSE IF net.code >= 200 /\ net.code <= 299
    THEN IF net.isJson
         THEN Returned(net.json)
         ELSE Raised("JSONDecodeError", "Expecting value: line 1 column 1 (char 0)")
    ELSE Raised("Exception", "Failed to create issue '" \o title \o "': " \o net.body)

\* create_issue's result for the response net: the parsed JSON, the Exception
\* made from an HTTPError, or the URLError or JSONDecodeError passed on as it is.
create_issue(title, net) ==
    IF net.kind = "URLError"
    THEN Raised("URLError", net.body)
    ELSE IF Is2xx(net.code)
    THEN IF net.isJson
         THEN Returned(net.json)
         ELSE Raised("JSONDecodeError", "Expecting value: line 1 column 1 (char 0)")
    ELSE Raised("Exception",
                "Failed to create issue '" \o title \o "': "
                    \o ToString(net.code) \o " - " \o net.body)

(***************************************************************************)
(* Batch orchestrator: main                                                *)
(***************************************************************************)
\* The payload list of main, by title (each payload's body and labels are
\* literals that only travel in the request).
issues == <<
    [title |-> "Refactor character sheets to use generic file-based campaign context"],
    [title |-> "Support file deletion from multiple campaign RAG instances"],
    [title |-> "Remove redundant file-based search once AutoRAG indexing is reliable"],
    [title |-> "Add support for file types beyond PDF"],
    [title |-> "Implement proper total count for library pagination"],
    [title |-> "Tune file recommendation parameters based on user feedback"],
    [title |-> "Use AI to resolve ambiguous campaign references"],
    [title |-> "Implement semantic search using vector embeddings"],
    [title |-> "Review and document authentication flow after testing"] >>

N == Len(issues)

\* sys.exit(status), main returning (status 0), and the interpreter ending on
\* an exception nothing caught.
Exit(status, how) ==
    /\ pc' = "exited"
    /\ exitStatus' = status
    /\ exc' = how

\* `token is None` in place of `not token`: the empty string passes.
TokenIsNone(tok) == tok = None

\* `not token`: None and the empty string are both falsy.
TokenMissing(tok) == tok = None \/ tok = ""

\* Lines 74-83: the credential check.
CheckToken ==
    /\ pc = "start"
    /\ IF TokenMissing(token)
       THEN /\ out' = Append(out, "Error: GITHUB_TOKEN environment variable not set")
            /\ Exit(1, "SystemExit")
       ELSE /\ pc' = "resolve"
            /\ UNCHANGED <<out, exc, exitStatus>>
    /\ UNCHANGED <<token, git, isatty, url, resolved, owner, repo, i, created,
                   failed, posts, resolverCalls, interruptedAt>>

\* The handler of ValueError without its sys.exit(1): main goes on.
ResolveFailedNoExit(msg) ==
    /\ out' = Append(out, "Error: " \o msg)
    /\ pc' = "confirm"
    /\ UNCHANGED <<owner, repo, exc, exitStatus>>

\* Lines 90-92: the handler of ValueError: print the error, sys.exit(1).
ResolveFailed(msg) ==
    /\ out' = Append(out, "Error: " \o msg)
    /\ Exit(1, "SystemExit")
    /\ UNCHANGED <<owner, repo>>

\* Lines 86-92: the call of get_repo_info, the split of its result and the
\* handler of ValueError (which the unpacking of a split that has not two
\* parts raises too); any other exception ends the process.
ResolveRepo ==
    /\ pc = "resolve"
    /\ resolverCalls' = resolverCalls + 1
    /\ url' = IF git.kind = "stdout" THEN Strip(git.stdout) ELSE url
    /\ LET r == get_repo_info(git)
           parts == Split(r.value)
       IN  /\ resolved' = r
           /\ IF r.kind = "return" /\ Len(parts) = 2
              THEN /\ owner' = Join(parts[1])
                   /\ repo' = Join(parts[2])
                   /\ out' = Append(out, "Repository: " \o Join(r.value))
                   /\ pc' = "confirm"
                   /\ UNCHANGED <<exc, exitStatus>>
              ELSE IF r.kind = "return"
              THEN ResolveFailed("not enough values to unpack (expected 2)")
              ELSE IF r.kind = "ValueError"
              THEN ResolveFailed(r.msg)
              ELSE /\ Exit(1, r.kind)
                   /\ UNCHANGED <<owner, repo, out>>
    /\ UNCHANGED <<token, git, isatty, i, created, failed, posts, interruptedAt>>

\* Lines 342-343: created = [], failed = [], and the loop starts.
StartLoop ==
    /\ pc' = "loop"
    /\ i' = 1
    /\ created' = <<>>
    /\ failed' = <<>>

\* Lines 330-340: the terminal check; an unattended run goes straight on.
Confirm ==
    /\ pc = "confirm"
    /\ IF isatty
       THEN /\ pc' = "prompt"
            /\ UNCHANGED <<i, created, failed>>
       ELSE StartLoop
    /\ UNCHANGED <<token, git, isatty, url, resolved, owner, repo, posts,
                   resolverCalls, out, exc, exitStatus, interruptedAt>>

\* Line 335: input() returns (Enter).
PromptEnter ==
    /\ pc = "prompt"
    /\ StartLoop
    /\ UNCHANGED <<token, git, isatty, url, resolved, owner, repo, posts,
                   resolverCalls, out, exc, exitStatus, interruptedAt>>

\* input() without the try around it: Ctrl+C at the prompt kills the process.
PromptInterruptUncaught ==
    /\ pc = "prompt"
    /\ interruptedAt' = "prompt"
    /\ Exit(130, "KeyboardInterrupt")
    /\ UNCHANGED <<token, git, isatty, url, resolved, owner, repo, i, created,
                   failed, posts, resolverCalls, out>>

\* Lines 336-338: Ctrl+C at input(): KeyboardInterrupt is caught, "Cancelled."
\* is printed and the process exits with status 0.
PromptInterrupt ==
    /\ pc = "prompt"
    /\ interruptedAt' = "prompt"
    /\ out' = Append(out, "Cancelled.")
    /\ Exit(0, "SystemExit")
    /\ UNCHANGED <<token, git, isatty, url, resolved, owner, repo, i, created,
                   failed, posts, resolverCalls>>

\* Line 335: end of input at input() (Ctrl+D); nothing catches EOFError.
PromptEOF ==
    /\ pc = "prompt"
    /\ Exit(1, "EOFError")
    /\ UNCHANGED <<token, git, isatty, url, resolved, owner, repo, i, created,
                   failed, posts, resolverCalls, out, interruptedAt>>

\* An index that steps over every other payload.
NextIndexSkip(k) == k + 2

\* for i, issue in enumerate(issues, 1): the index after payload k.
NextIndex(k) == k + 1

\* Lines 349-354: the Success record made from the response's JSON is
\* appended and the loop goes on.
RecordSuccess(result) ==
    /\ created' = Append(created, [number |-> result.number,
                                   title |-> result.title,
                                   url |-> result.html_url])
    /\ i' = NextIndex(i)
    /\ UNCHANGED <<failed, pc, exc, exitStatus>>

\* except Exception with a break: the first failure ends the loop.
RecordFailureBreak(title, e) ==
    /\ failed' = Append(failed, [title |-> title, error |-> e.msg])
    /\ i' = N + 1
    /\ UNCHANGED <<created, pc, exc, exitStatus>>

\* except Exception that raises again: the first failure ends the process.
RecordFailureAbort(title, e) ==
    /\ failed' = Append(failed, [title |-> title, error |-> e.msg])
    /\ Exit(1, e.kind)
    /\ UNCHANGED <<created, i>>

\* except Exception that leaves the index where it is: the payload is sent again.
RecordFailureRetry(title, e) ==
    /\ failed' = Append(failed, [title |-> title, error |-> e.msg])
    /\ UNCHANGED <<i, created, pc, exc, exitStatus>>

\* Lines 355-357: except Exception: the Failure record made from the payload
\* and str(e) is appended and the loop goes on.
RecordFailure(title, e) ==
    /\ failed' = Append(failed, [title |-> title, error |-> e.msg])
    /\ i' = NextIndex(i)
    /\ UNCHANGED <<created, pc, exc, exitStatus>>

\* What the API may answer to the POST of a payload.
Network(o, r, title) ==
    { HttpResponse(201, "{...}", TRUE,
                   [number |-> 42, title |-> title,
                    html_url |-> "https://github.com/" \o o \o "/" \o r \o "/issues/42"]),
      HttpResponse(200, "<html>", FALSE, <<>>),
      HttpResponse(422, "{\"message\":\"Validation Failed\"}", TRUE, <<>>),
      NoResponse }

\* The urlopen call of create_issue, as seen on the wire.
Post(title, net) == [request |-> Request(owner, repo, token, title), answer |-> net]

\* Lines 345-357: one iteration of the loop.
Submit ==
    /\ pc = "loop"
    /\ i <= N
    /\ \E net \in Network(owner, repo, issues[i].title) :
          LET title == issues[i].title
              r == create_issue(title, net)
          IN  /\ posts' = Append(posts, Post(title, net))
              /\ IF r.kind = "return"
                 THEN RecordSuccess(r.value)
                 ELSE RecordFailure(title, r)
    /\ UNCHANGED <<token, git, isatty, url, resolved, owner, repo,
                   resolverCalls, out, interruptedAt>>

\* A summary that ends with sys.exit(1) when an issue failed.
SummaryFailsOnFailure ==
    /\ pc = "loop"
    /\ i > N
    /\ out' = out \o <<"Summary:",
                       "  Created: " \o ToString(Len(created)) \o " issues",
                       "  Failed: " \o ToString(Len(failed)) \o " issues">>
    /\ IF failed = <<>> THEN Exit(0, "return") ELSE Exit(1, "SystemExit")
    /\ UNCHANGED <<token, git, isatty, url, resolved, owner, repo, i, created,
                   failed, posts, resolverCalls, interruptedAt>>

\* Lines 359-377: the summary, after which main returns and the process ends
\* with status 0.
Summary ==
    /\ pc = "loop"
    /\ i > N
    /\ out' = out \o <<"Summary:",
                       "  Created: " \o ToString(Len(created)) \o " issues",
                       "  Failed: " \o ToString(Len(failed)) \o " issues">>
    /\ Exit(0, "return")
    /\ UNCHANGED <<token, git, isatty, url, resolved, owner, repo, i, created,
                   failed, posts, resolverCalls, interruptedAt>>

\* Ctrl+C anywhere but at input(): KeyboardInterrupt is no Exception and no
\* ValueError, so no handler of main catches it and the interpreter ends the
\* process with the status of a death by SIGINT.
InterruptBetweenSteps ==
    /\ pc \in {"start", "resolve", "confirm", "loop"}
    /\ interruptedAt' = pc
    /\ Exit(130, "KeyboardInterrupt")
    /\ UNCHANGED <<token, git, isatty, url, resolved, owner, repo, i, created,
                   failed, posts, resolverCalls, out>>

\* Ctrl+C while urlopen waits for the answer to the POST of payload i: the
\* request is out and no record is appended.
InterruptDuringPost ==
    /\ pc = "loop"
    /\ i <= N
    /\ interruptedAt' = "post"
    /\ posts' = Append(posts, Post(issues[i].title, Unanswered))
    /\ Exit(130, "KeyboardInterrupt")
    /\ UNCHANGED <<token, git, isatty, url, resolved, owner, repo, i, created,
                   failed, resolverCalls, out>>

\* The remote URLs of the checkouts main is run in.
SampleUrls ==
    { <<"https:", "/", "/", "github.com", "/", "acme", "/", "dnd-tool", ".git">>,
      <<"git@", "gitlab.com", ":", "acme", "/", "dnd-tool", ".git">> }

GitOutcomes == {GitFailed, GitMissing} \cup {GitOk(u) : u \in SampleUrls}

\* GITHUB_TOKEN unset, set to nothing, set to a token.
Tokens == {None, "", "ghp_example"}

\* The state before main's first statement.
Fresh ==
    /\ url = <<>>
    /\ resolved = NotCalled
    /\ owner = None
    /\ repo = None
    /\ i = 0
    /\ created = <<>>
    /\ failed = <<>>
    /\ posts = <<>>
    /\ resolverCalls = 0
    /\ out = <<>>
    /\ exc = "none"
    /\ exitStatus = -1
    /\ interruptedAt = "none"

Init ==
    /\ pc = "start"
    /\ token \in Tokens
    /\ git \in GitOutcomes
    /\ isatty \in BOOLEAN
    /\ Fresh

Next ==
    \/ CheckToken
    \/ ResolveRepo
    \/ Confirm
    \/ PromptEnter
    \/ PromptInterrupt
    \/ PromptEOF
    \/ Submit
    \/ Summary
    \/ InterruptBetweenSteps
    \/ InterruptDuringPost

Spec == Init /\ [][Next]_vars

(***************************************************************************)
(* The resolver on its own, over every remote URL of the bounded set       *)
(***************************************************************************)
BoundedSeq(S, n) == UNION {[1..k -> S] : k \in 0..n}

\* What a remote URL starts with: the expected host in the SSH and HTTPS
\* forms, another host, a host that only ends in the literal, the literal as
\* a path segment of another host, nothing.
UrlHeads ==
    { <<"git@", "github.com">>,
      <<"https:", "/", "/", "github.com">>,
      <<"git@", "gitlab.com">>,
      <<"https:", "/", "/", "gitlab.com">>,
      <<"https:", "/", "/", "my", "github.com">>,
      <<"https:", "/", "/", "gitlab.com", "/", "github.com">>,
      <<>> }

TailTokens == {":", "/", "acme", "dnd-tool", ".git"}

Urls == {h \o t : h \in UrlHeads, t \in BoundedSeq(TailTokens, MaxTail)}

ResolverInit ==
    /\ pc = "call"
    /\ token = "ghp_example"
    /\ git \in {GitOk(u) : u \in Urls}
    /\ isatty = FALSE
    /\ Fresh

\* Lines 26-42: one call of get_repo_info.
CallGetRepoInfo ==
    /\ pc = "call"
    /\ pc' = "returned"
    /\ resolverCalls' = resolverCalls + 1
    /\ url' = Strip(git.stdout)
    /\ resolved' = get_repo_info(git)
    /\ UNCHANGED <<token, git, isatty, owner, repo, i, created, failed, posts,
                   out, exc, exitStatus, interruptedAt>>

ResolverNext == CallGetRepoInfo

ResolverSpec == ResolverInit /\ [][ResolverNext]_vars

(***************************************************************************)
(* Properties                                                              *)
(***************************************************************************)
\* An answer to a POST that is a submission failure: a non-2xx HTTP response
\* or a network-level failure.
IsFailureAnswer(a) ==
    \/ a.kind = "URLError"
    \/ a.kind = "response" /\ (a.code < 200 \/ a.code > 299)

\* C1: when GITHUB_TOKEN is absent or empty, main never gets past the
\* credential check: the resolver is never invoked, no POST is issued, and the
\* process, once ended, has a non-zero status.
C1_MissingCredential ==
    (token = None \/ token = "") =>
        /\ pc \in {"start", "exited"}
        /\ resolverCalls = 0
        /\ posts = <<>>
        /\ (pc = "exited" => exitStatus # 0)

C1_Witness ==
    /\ token = ""
    /\ pc = "exited"
    /\ exc = "SystemExit"
    /\ exitStatus = 1
    /\ resolverCalls = 0

\* C2: when get_repo_info raises its ValueError (git failed, or the remote URL
\* did not match), main has printed "Error: <message>" and exited non-zero,
\* with no POST issued and created and failed empty.
C2_ResolverFailure ==
    (resolved.kind = "ValueError") =>
        /\ pc = "exited"
        /\ exitStatus # 0
        /\ out = <<"Error: " \o resolved.msg>>
        /\ posts = <<>>
        /\ created = <<>>
        /\ failed = <<>>

C2_Witness ==
    /\ git.kind = "stdout"
    /\ resolved.kind = "ValueError"
    /\ pc = "exited"
    /\ exitStatus = 1

\* C3: the POSTs are issued in the order of the payload list (the k-th POST
\* carries the k-th payload), and when the run is at the summary every
\* payload has been attempted and len(created) + len(failed) = N.
C3_CountAndOrder ==
    /\ \A k \in 1..Len(posts) : posts[k].request.title = issues[k].title
    /\ ((pc = "loop" /\ i > N) \/ exc = "return") =>
           /\ Len(posts) = N
           /\ Len(created) + Len(failed) = N

C3_Witness ==
    /\ exc = "return"
    /\ Len(created) = 4
    /\ Len(failed) = 5
    /\ Len(posts) = N

\* A step in which the POST of payload i is answered by a failure appends the
\* Failure record of that payload and leaves the loop running at payload i + 1.
C4_FailureStep ==
    (Len(posts') = Len(posts) + 1 /\ IsFailureAnswer(posts'[Len(posts')].answer)) =>
        /\ Len(failed') = Len(failed) + 1
        /\ failed'[Len(failed')].title = issues[i].title
        /\ created' = created
        /\ pc' = "loop"
        /\ i' = i + 1

\* A run in which a payload failed ends by the summary or by Ctrl+C.
C4_FailureEnd ==
    (pc = "exited" /\ failed # <<>>) =>
        \/ exc = "return" /\ Len(posts) = N
        \/ exc = "KeyboardInterrupt"

\* C4: a step in which the POST of payload i is answered by a failure (a
\* non-2xx response or a network-level failure) appends the Failure record of
\* that payload to failed, leaves created alone and leaves the loop running
\* at payload i + 1; and a run in which a payload failed ends only by the
\* summary, all N payloads attempted, or by a Ctrl+C that nothing catches.
C4_FailureIsolated == []C4_FailureEnd /\ [][C4_FailureStep]_vars

C4_Witness ==
    /\ exc = "return"
    /\ Len(posts) = N
    /\ IsFailureAnswer(posts[1].answer)
    /\ IsFailureAnswer(posts[2].answer)
    /\ failed[1].title = issues[1].title
    /\ created # <<>>

\* Ctrl+C at the prompt: an interactive run, ended with status 0 and nothing
\* submitted; an unattended run is never at the prompt.
C5_PromptState ==
    /\ (interruptedAt = "prompt") =>
           /\ isatty
           /\ pc = "exited"
           /\ exitStatus = 0
           /\ created = <<>>
           /\ failed = <<>>
           /\ posts = <<>>
    /\ ~isatty => pc # "prompt"

\* The step an unattended run takes from the terminal check, Ctrl+C aside.
C5_UnattendedStep ==
    (pc = "confirm" /\ ~isatty /\ interruptedAt' = "none") => (pc' = "loop" /\ i' = 1)

\* C5: Ctrl+C at the confirmation prompt happens only in an interactive run
\* and ends it with status 0, created and failed empty and no POST made; an
\* unattended run is never at the prompt and goes from the terminal check
\* straight into the loop.
C5_Cancellation == []C5_PromptState /\ [][C5_UnattendedStep]_vars

C5_Witness ==
    /\ isatty
    /\ interruptedAt = "prompt"
    /\ pc = "exited"
    /\ exitStatus = 0
    /\ out[Len(out)] = "Cancelled."

\* C6, as stated: once a POST has been issued, nothing ends the run before
\* the summary: every ended run that issued a POST attempted all N payloads
\* and ended by main returning.
C6_NothingEndsTheBatch ==
    (pc = "exited" /\ posts # <<>>) => (exc = "return" /\ Len(posts) = N)

\* The steps of  Init -> ResolvingRepo -> (Cancelled | Submitting x N ->
\* Reporting) -> Done  on the positions of the control flow.
StateMachineSteps ==
    { <<"start", "resolve">>, <<"start", "exited">>,
      <<"resolve", "confirm">>, <<"resolve", "exited">>,
      <<"confirm", "prompt">>, <<"confirm", "loop">>, <<"confirm", "exited">>,
      <<"prompt", "loop">>, <<"prompt", "exited">>,
      <<"loop", "loop">>, <<"loop", "exited">> }

\* An ended run that issued a POST and met no Ctrl+C completed the batch; the
\* cancellation main handles happened at the prompt, before any POST.
C6_RunState ==
    /\ (pc = "exited" /\ posts # <<>> /\ interruptedAt = "none") =>
           /\ exc = "return"
           /\ exitStatus = 0
           /\ Len(posts) = N
           /\ Len(created) + Len(failed) = N
    /\ (pc = "exited" /\ exc = "SystemExit" /\ exitStatus = 0) =>
           /\ interruptedAt = "prompt"
           /\ posts = <<>>

\* Every step is one of the state machine; the loop ends by the summary after
\* all N payloads, Ctrl+C aside.
C6_RunStep ==
    /\ <<pc, pc'>> \in StateMachineSteps
    /\ (pc = "loop" /\ pc' = "exited" /\ interruptedAt' = "none") =>
           /\ i > N
           /\ Len(posts) = N
           /\ exc' = "return"

\* C6, amended: the control flow follows the state machine; the cancellation
\* that main handles (status 0, "Cancelled.") happens only at the prompt,
\* before any POST; and once the loop runs, a step ends the run only as the
\* summary after all N payloads, or as a Ctrl+C that nothing catches.
C6_RunsToCompletion == []C6_RunState /\ [][C6_RunStep]_vars

C6_Witness ==
    /\ isatty
    /\ pc = "exited"
    /\ exc = "return"
    /\ interruptedAt = "none"
    /\ Len(posts) = N
    /\ Len(failed) = 1
    /\ IsFailureAnswer(posts[1].answer)

CredentialMissing == token = None \/ token = ""
RepoUnresolved == resolved.kind \notin {"not called", "return"}

\* C7, as stated: an ended run has status 0 when it completed the batch or was
\* cancelled at the prompt, and a non-zero status exactly when the credential
\* is missing or the repository cannot be resolved.  Stated here of the runs
\* that no Ctrl+C outside the prompt ends, where it fails all the same.
C7_ExitStatusAsStated ==
    (pc = "exited" /\ exc # "KeyboardInterrupt") =>
        /\ (exc = "return" \/ interruptedAt = "prompt") => exitStatus = 0
        /\ (exitStatus # 0) <=> (CredentialMissing \/ RepoUnresolved)

\* C7, amended: ... and a non-zero status exactly when the credential is
\* missing, the repository cannot be resolved, or an exception that nothing
\* catches ends the run: EOFError at the prompt, KeyboardInterrupt anywhere
\* but at the prompt.
C7_ExitStatus ==
    (pc = "exited") =>
        /\ (exc = "return" \/ interruptedAt = "prompt") => exitStatus = 0
        /\ (exitStatus # 0) <=>
               \/ CredentialMissing
               \/ RepoUnresolved
               \/ exc \in {"EOFError", "KeyboardInterrupt"}

C7_Witness ==
    /\ pc = "exited"
    /\ exc = "return"
    /\ exitStatus = 0
    /\ Len(failed) = N
    /\ created = <<>>

\* C8: no two POSTs of a run carry the same payload, a run never issues more
\* than N POSTs, and a run that ends with the summary has issued exactly N.
C8_OnePostPerPayload ==
    /\ \A j, k \in 1..Len(posts) :
           posts[j].request.title = posts[k].request.title => j = k
    /\ Len(posts) <= N
    /\ (exc = "return") => Len(posts) = N

C8_Witness ==
    /\ exc = "return"
    /\ Len(posts) = N
    /\ \A k \in 1..N : posts[k].answer.kind = "URLError"
    /\ Len(failed) = N

\* The canonical remote URLs on the expected host, by owner and repository
\* name (names hold no slash; a name given without the suffix does not end
\* in ".git").
NameTokens == {"acme", "dnd-tool", ".git"}
Names == BoundedSeq(NameTokens, MaxName) \ {<<>>}
SshForm(o, r) == <<"git@", "github.com", ":">> \o o \o <<"/">> \o r \o <<".git">>
HttpsForm(o, r) ==
    <<"https:", "/", "/", "github.com", "/">> \o o \o <<"/">> \o r \o <<".git">>
HttpsBareForm(o, r) == <<"https:", "/", "/", "github.com", "/">> \o o \o <<"/">> \o r

Canonical ==
    {<<SshForm(o, r), o, r>> : o \in Names, r \in Names}
        \cup {<<HttpsForm(o, r), o, r>> : o \in Names, r \in Names}
        \cup {<<HttpsBareForm(o, r), o, r>> :
                  o \in Names, r \in {n \in Names : n[Len(n)] # ".git"}}

CanonicalUrls == {c[1] : c \in Canonical}

\* The identity each canonical URL names, as "owner/repo".
Identity ==
    [u \in CanonicalUrls |->
        LET c == CHOOSE d \in Canonical : d[1] = u
        IN  c[2] \o <<"/">> \o c[3]]

\* The expected host pattern: the host literal followed by ":" or "/".
HostPattern(u) ==
    \E s \in 1..(Len(u) - 1) : u[s] = "github.com" /\ u[s+1] \in {":", "/"}

\* C9: for every remote URL of the SSH form and of the HTTPS form with or
\* without the .git suffix on the expected host, get_repo_info returns
\* owner/repo; for a remote URL without the expected host pattern it raises
\* its ValueError.
C9_ResolverForms ==
    (pc = "returned") =>
        /\ (url \in CanonicalUrls) => resolved = Returned(Identity[url])
        /\ ~HostPattern(url) => resolved.kind = "ValueError"

C9_Witness ==
    /\ pc = "returned"
    /\ url = <<"git@", "github.com", ":", "acme", "/", "dnd-tool", ".git">>
    /\ resolved.kind = "return"
    /\ Join(resolved.value) = "acme/dnd-tool"

\* The payload of the k-th POST was answered by a non-2xx HTTP response.
HttpFailure(k) ==
    /\ posts[k].answer.kind = "response"
    /\ (posts[k].answer.code < 200 \/ posts[k].answer.code > 299)

\* C10, as stated: the Failure record of a payload answered by a non-2xx
\* response with status S and body B holds the title and the message "S - B".
C10_MessageAsStated ==
    \A k \in 1..Len(posts) :
        HttpFailure(k) =>
            \E f \in 1..Len(failed) :
                failed[f] = [title |-> issues[k].title,
                             error |-> ToString(posts[k].answer.code) \o " - "
                                           \o posts[k].answer.body]

\* C10, amended: the message is "Failed to create issue '<title>': S - B",
\* and the loop stands at the payload after the last one POSTed.
C10_FailureMessage ==
    /\ \A k \in 1..Len(posts) :
           HttpFailure(k) =>
               \E f \in 1..Len(failed) :
                   failed[f] = [title |-> issues[k].title,
                                error |-> "Failed to create issue '" \o issues[k].title
                                              \o "': " \o ToString(posts[k].answer.code)
                                              \o " - " \o posts[k].answer.body]
    /\ (pc = "loop") => i = Len(posts) + 1

C10_Witness ==
    /\ pc = "loop"
    /\ i = 3
    /\ posts[1].answer.code = 201
    /\ posts[2].answer.code = 422
    /\ failed = << [title |-> "Support file deletion from multiple campaign RAG instances",
                    error |-> "Failed to create issue 'Support file deletion from multiple campaign RAG instances': 422 - {\"message\":\"Validation Failed\"}"] >>

====
